---------------------------- MODULE Spec2Model ----------------------------
(***************************************************************************)
(* Model of mpris-poc (src/src/main.rs): a watch loop that merges the      *)
(* name-owner-changed stream of the session bus with the metadata-changed  *)
(* and volume-changed streams of every MPRIS player, rebuilds the merged   *)
(* stream on a roster change and re-reads every player's snapshot after    *)
(* each event.                                                             *)
(***************************************************************************)
EXTENDS Integers, Sequences, FiniteSets

(***************************************************************************)
(* Bounds of the model.                                                    *)
(***************************************************************************)
\* Number of signals the bus emits in one behaviour.
MaxSignals == 3
\* Longest artist list drawn for the title resolver.
MaxArtists == 2

(***************************************************************************)
(* Strings.                                                                *)
(***************************************************************************)
SERVICE_PREFIX == "org.mpris.MediaPlayer2."

\* str::starts_with
StartsWith(s, p) == Len(s) >= Len(p) /\ SubSeq(s, 1, Len(p)) = p

\* str::strip_prefix(..).unwrap_or(..)
StripPrefixOr(s, p) == IF StartsWith(s, p) THEN SubSeq(s, Len(p) + 1, Len(s)) ELSE s

\* [String]::join
RECURSIVE Join(_, _)
Join(l, sep) ==
    IF l = <<>> THEN ""
    ELSE IF Len(l) = 1 THEN l[1]
    ELSE l[1] \o sep \o Join(Tail(l), sep)

(***************************************************************************)
(* The bus: names, property values.                                        *)
(***************************************************************************)
PlayerA == "org.mpris.MediaPlayer2.spotify"
PlayerB == "org.mpris.MediaPlayer2.vlc"
Players == {PlayerA, PlayerB}
\* The bus daemon's own name is always listed; unique names come and go.
DaemonName == "org.freedesktop.DBus"
OtherName == ":1.42"

\* An OwnedValue of the property bag: a string array, a string, or another type.
VArr(l) == [type |-> "as", list |-> l, str |-> ""]
VStr(s) == [type |-> "s", list |-> <<>>, str |-> s]
VInt == [type |-> "i", list |-> <<>>, str |-> ""]
\* What HashMap::get returns for a key the bag does not hold.
Absent == [type |-> "absent", list |-> <<>>, str |-> ""]

\* A metadata property bag, by its two keys xesam:artist and xesam:title.
Bag(a, t) == [artist |-> a, title |-> t]

\* Volumes, in tenths.
Vols == {5, 8}

\* Option<String> and Option<f64>
NoneStr == [some |-> FALSE, v |-> ""]
NoneF64 == [some |-> FALSE, v |-> 0]
Some(x) == [some |-> TRUE, v |-> x]

\* Result<String, TitleParseError>, or the panic of an unwrap on None.
OkStr(s) == [tag |-> "Ok", v |-> s]
TitleParseError == [tag |-> "Err", v |-> "TitleParseError"]
Panicked(key) == [tag |-> "Panic", v |-> key]
\* Result::ok
ResultOk(r) == IF r.tag = "Ok" THEN Some(r.v) ELSE NoneStr

(***************************************************************************)
(* PlayerProxy::get_title.  mr is the outcome of self.metadata(): ok with  *)
(* a bag, or an error.                                                     *)
(***************************************************************************)
\* TryInto<Vec<String>> then join
ArtistsOf(val) == IF val.type = "as" THEN OkStr(Join(val.list, ", ")) ELSE TitleParseError
\* TryInto<String>
TitleOf(val) == IF val.type = "s" THEN OkStr(val.str) ELSE TitleParseError

\* A slip: the arguments of format! are swapped.
get_title_TitleFirst(mr) ==
    IF ~mr.ok THEN TitleParseError
    ELSE IF mr.bag.artist = Absent THEN Panicked("xesam:artist")
    ELSE IF mr.bag.title = Absent THEN Panicked("xesam:title")
    ELSE LET artists == ArtistsOf(mr.bag.artist)
             title == TitleOf(mr.bag.title)
         IN  IF artists.tag = "Ok" /\ title.tag = "Ok"
                 THEN OkStr(title.v \o " - " \o artists.v)
             ELSE IF title.tag = "Ok" THEN OkStr(title.v)
             ELSE IF artists.tag = "Ok" THEN OkStr(artists.v)
             ELSE TitleParseError

get_title(mr) ==
    IF ~mr.ok THEN TitleParseError
    ELSE IF mr.bag.artist = Absent THEN Panicked("xesam:artist")
    ELSE IF mr.bag.title = Absent THEN Panicked("xesam:title")
    ELSE LET artists == ArtistsOf(mr.bag.artist)
             title == TitleOf(mr.bag.title)
         IN  IF artists.tag = "Ok" /\ title.tag = "Ok"
                 THEN OkStr(artists.v \o " - " \o title.v)
             ELSE IF title.tag = "Ok" THEN OkStr(title.v)
             ELSE IF artists.tag = "Ok" THEN OkStr(artists.v)
             ELSE TitleParseError

(***************************************************************************)
(* PlayerData and its Display.                                             *)
(***************************************************************************)
PlayerData(n, t, v) == [service_name |-> n, title |-> t, volume |-> v]
\* PlayerData { service_name, ..Default::default() }
DefaultData(n) == PlayerData(n, NoneStr, NoneF64)

Digit(d) == SubSeq("0123456789", d + 1, d + 1)
RECURSIVE NatStr(_)
NatStr(k) == IF k < 10 THEN Digit(k) ELSE NatStr(k \div 10) \o Digit(k % 10)
\* Display of an f64 held in tenths: 8 prints 0.8, 10 prints 1.
FmtF64(v) ==
    IF v % 10 = 0 THEN NatStr(v \div 10)
    ELSE NatStr(v \div 10) \o "." \o Digit(v % 10)

Display(d) ==
    LET service_name == StripPrefixOr(d.service_name, SERVICE_PREFIX)
    IN  IF d.title.some
            THEN IF d.volume.some
                     THEN service_name \o "[" \o FmtF64(d.volume.v) \o "]: " \o d.title.v
                     ELSE service_name \o ": " \o d.title.v
            ELSE service_name \o ": Nothing"

(***************************************************************************)
(* State.                                                                  *)
(***************************************************************************)
VARIABLES
    owners,     \* bus: the player names that currently have an owner
    meta,       \* bus: each player's Metadata property bag
    vol,        \* bus: each player's Volume property
    nsig,       \* bus: number of signals emitted so far (the id of the last)
    pc,         \* main: the await it is at
    phase,      \* main: "startup", "rebuild" (Names arm) or "refresh" (other arm)
    term,       \* main: why it ended ("" while running)
    combined,   \* main: the SelectAll the loop polls (<<>> before the first)
    names,      \* main: the roster
    data,       \* main: the snapshots
    out,        \* stdout: the lines of the last batch printed
    isNames,    \* init_streams: its own enumeration
    services,   \* init_streams: the PlayerProxy of each enumerated name
    building,   \* init_streams: the SelectAll under construction
    subI,       \* init_streams: index of the for loops
    gdI,        \* get_data: number of futures of the join_all that completed
    gdAcc,      \* get_data: their results
    gdT,        \* get_data: the title the running future has read
    installed,  \* history: number of SelectAll values assigned to combined
    namesGen,   \* history: value of installed when names was last assigned
    dataGen,    \* history: value of installed at the last full recompute of data
    lastEv,     \* history: the event the loop consumed last
    delivered,  \* history: every event the loop consumed
    batches,    \* history: number of times the snapshots were printed
    tIn,        \* title resolver on its own: the outcome of metadata()
    tOut        \* title resolver on its own: what get_title returned

busVars == <<owners, meta, vol, nsig>>
initVars == <<isNames, services, building, subI>>
gdVars == <<gdI, gdAcc, gdT>>
histVars == <<installed, namesGen, dataGen, lastEv, delivered, batches>>
titleVars == <<tIn, tOut>>
vars == <<owners, meta, vol, nsig, pc, phase, term, combined, names, data, out,
          isNames, services, building, subI, gdI, gdAcc, gdT,
          installed, namesGen, dataGen, lastEv, delivered, batches, tIn, tOut>>

\* The property bags players publish while the loop runs.
BagFull == Bag(VArr(<<"Queen">>), VStr("Bohemian Rhapsody"))
\* A player with no track loaded publishes a bag without either key.
BagEmpty == Bag(Absent, Absent)
BagUntyped == Bag(VInt, VInt)
LiveBags == {BagFull, BagEmpty, BagUntyped}

\* The inputs of the title resolver on its own.
ArtistNames == {"Queen", "David Bowie", "Annie Lennox"}
RECURSIVE SeqsUpTo(_, _)
SeqsUpTo(S, k) ==
    IF k = 0 THEN {<<>>}
    ELSE LET shorter == SeqsUpTo(S, k - 1)
         IN  shorter \cup {Append(l, x) : l \in {m \in shorter : Len(m) = k - 1}, x \in S}
ArtistValues == {VArr(l) : l \in SeqsUpTo(ArtistNames, MaxArtists)} \cup {VInt, Absent}
TitleValues == {VStr("Under Pressure"), VStr(""), VInt, Absent}
MetadataOk(bag) == [ok |-> TRUE, bag |-> bag]
MetadataErr == [ok |-> FALSE, bag |-> Bag(Absent, Absent)]
TitleInputs == {MetadataOk(Bag(a, t)) : a \in ArtistValues, t \in TitleValues} \cup {MetadataErr}
NotCalled == [tag |-> "NotCalled", v |-> ""]

NoEvent == [kind |-> "None", id |-> "", sig |-> 0, epoch |-> 0, fresh |-> FALSE]

Init ==
    /\ owners \in SUBSET Players
    /\ meta = [p \in Players |-> BagFull]
    /\ vol = [p \in Players |-> 8]
    /\ nsig = 0
    /\ pc = "connect"
    /\ phase = "startup"
    /\ term = ""
    /\ combined = <<>>
    /\ names = <<>>
    /\ data = <<>>
    /\ out = <<>>
    /\ isNames = <<>>
    /\ services = <<>>
    /\ building = <<>>
    /\ subI = 0
    /\ gdI = 0
    /\ gdAcc = <<>>
    /\ gdT = NoneStr
    /\ installed = 0
    /\ namesGen = 0
    /\ dataGen = 0
    /\ lastEv = NoEvent
    /\ delivered = {}
    /\ batches = 0
    /\ tIn = MetadataErr
    /\ tOut = NotCalled

(***************************************************************************)
(* The streams.  A source is one boxed stream pushed into a SelectAll: its *)
(* kind is the PlayerEvent it maps to, id the player its proxy is bound to *)
(* ("" for the name-owner-changed stream), epoch the number of the         *)
(* init_streams call that made it, q the signals it holds, oldest first;   *)
(* fresh records that the SelectAll in use when it was made had no stream  *)
(* of that player.                                                         *)
(***************************************************************************)
Source(k, n, e) ==
    [kind |-> k, id |-> n, epoch |-> e, q |-> <<>>,
     fresh |-> \A i \in DOMAIN combined : combined[i].id # n]

\* A slip: every signal that decodes passes, whatever its name.
NameFilter_AnyName(sig) == sig.ok

\* The filter_map closure over a NameOwnerChanged signal.
NameFilter(sig) ==
    IF sig.ok THEN StartsWith(sig.name, SERVICE_PREFIX) ELSE FALSE

\* A NameOwnerChanged signal s reaches every name-owner-changed stream.
DeliverNames(mux, sig, s) ==
    IF mux = <<>> THEN <<>>
    ELSE [i \in DOMAIN mux |->
            IF mux[i].kind = "Names" /\ NameFilter(sig)
                THEN [mux[i] EXCEPT !.q = Append(@, s)]
                ELSE mux[i]]

\* A PropertiesChanged signal s of player n reaches the streams of that property.
DeliverProp(mux, k, n, s) ==
    IF mux = <<>> THEN <<>>
    ELSE [i \in DOMAIN mux |->
            IF mux[i].kind = k /\ mux[i].id = n
                THEN [mux[i] EXCEPT !.q = Append(@, s)]
                ELSE mux[i]]

(***************************************************************************)
(* The bus and the players (the environment).                              *)
(***************************************************************************)
\* The model follows the bus while main runs.
Running == term = "" /\ nsig < MaxSignals

NameOwnerChanged(sig) ==
    /\ nsig' = nsig + 1
    /\ combined' = DeliverNames(combined, sig, nsig + 1)
    /\ building' = DeliverNames(building, sig, nsig + 1)

PlayerAppears(n) ==
    /\ Running
    /\ n \notin owners
    /\ owners' = owners \cup {n}
    /\ NameOwnerChanged([ok |-> TRUE, name |-> n])
    /\ UNCHANGED <<meta, vol, pc, phase, term, names, data, out, isNames, services,
                   subI, gdVars, histVars, titleVars>>

PlayerVanishes(n) ==
    /\ Running
    /\ n \in owners
    /\ owners' = owners \ {n}
    /\ NameOwnerChanged([ok |-> TRUE, name |-> n])
    /\ UNCHANGED <<meta, vol, pc, phase, term, names, data, out, isNames, services,
                   subI, gdVars, histVars, titleVars>>

\* A connection that is no player comes or goes.
OtherNameChanges ==
    /\ Running
    /\ NameOwnerChanged([ok |-> TRUE, name |-> OtherName])
    /\ UNCHANGED <<owners, meta, vol, pc, phase, term, names, data, out, isNames,
                   services, subI, gdVars, histVars, titleVars>>

\* A NameOwnerChanged signal whose body does not decode.
MalformedNameSignal ==
    /\ Running
    /\ NameOwnerChanged([ok |-> FALSE, name |-> ""])
    /\ UNCHANGED <<owners, meta, vol, pc, phase, term, names, data, out, isNames,
                   services, subI, gdVars, histVars, titleVars>>

MetadataChanges(n, bag) ==
    /\ Running
    /\ n \in owners
    /\ bag # meta[n]
    /\ meta' = [meta EXCEPT ![n] = bag]
    /\ nsig' = nsig + 1
    /\ combined' = DeliverProp(combined, "Metadata", n, nsig + 1)
    /\ building' = DeliverProp(building, "Metadata", n, nsig + 1)
    /\ UNCHANGED <<owners, vol, pc, phase, term, names, data, out, isNames, services,
                   subI, gdVars, histVars, titleVars>>

VolumeChanges(n, v) ==
    /\ Running
    /\ n \in owners
    /\ v # vol[n]
    /\ vol' = [vol EXCEPT ![n] = v]
    /\ nsig' = nsig + 1
    /\ combined' = DeliverProp(combined, "Volume", n, nsig + 1)
    /\ building' = DeliverProp(building, "Volume", n, nsig + 1)
    /\ UNCHANGED <<owners, meta, pc, phase, term, names, data, out, isNames, services,
                   subI, gdVars, histVars, titleVars>>

(***************************************************************************)
(* Calls on the bus and on a player.                                       *)
(***************************************************************************)
\* DBusProxy::list_names: the daemon's own name, then the names that have an owner.
ListNames ==
    <<DaemonName>> \o (IF PlayerA \in owners THEN <<PlayerA>> ELSE <<>>)
                   \o (IF PlayerB \in owners THEN <<PlayerB>> ELSE <<>>)

IsPlayerName(n) == StartsWith(n, SERVICE_PREFIX)

\* get_player_names, past its two fallible calls.
get_player_names == SelectSeq(ListNames, IsPlayerName)

\* PlayerProxy::new for a name: it succeeds for a name that has an owner; for one
\* that has none the bus may or may not refuse.
ProxyOutcomes(n) == IF n \in owners THEN {"Ok"} ELSE {"Ok", "Err"}

\* player.metadata() and player.volume()
MetadataRead(n) == IF n \in owners THEN MetadataOk(meta[n]) ELSE MetadataErr
VolumeRead(n) == IF n \in owners THEN Some(vol[n]) ELSE NoneF64

(***************************************************************************)
(* main, up to its first call, and the failures of the bus itself.         *)
(***************************************************************************)
\* Connection::session().await?
Connect ==
    /\ term = ""
    /\ pc = "connect"
    /\ pc' = "is_names"
    /\ UNCHANGED <<busVars, phase, term, combined, names, data, out, initVars, gdVars,
                   histVars, titleVars>>

\* The awaits followed by `?`: the session connection, DBusProxy::new, list_names,
\* receive_name_owner_changed.  Any of them may fail, and main returns the error.
TransportPcs == {"connect", "is_names", "is_sub_names", "gpn"}

TransportFails ==
    /\ term = ""
    /\ pc \in TransportPcs
    /\ term' = "transport"
    /\ UNCHANGED <<busVars, pc, phase, combined, names, data, out, initVars, gdVars,
                   histVars, titleVars>>

(***************************************************************************)
(* init_streams                                                            *)
(***************************************************************************)
\* let dbus = DBusProxy::new(conn).await?; let names = get_player_names(conn).await?
\* (the proxy of the bus daemon is made without touching the state modelled here)
IsGetPlayerNames ==
    /\ term = ""
    /\ pc = "is_names"
    /\ isNames' = get_player_names
    /\ pc' = "is_proxies"
    /\ UNCHANGED <<busVars, phase, term, combined, names, data, out, services, building,
                   subI, gdVars, histVars, titleVars>>

\* join_all(names.iter().map(.. PlayerProxy::new(conn, n.clone()).await.unwrap() ..))
IsProxies ==
    /\ term = ""
    /\ pc = "is_proxies"
    /\ \E outcome \in [1 .. Len(isNames) -> {"Ok", "Err"}] :
          /\ \A i \in 1 .. Len(isNames) : outcome[i] \in ProxyOutcomes(isNames[i])
          /\ IF \E i \in 1 .. Len(isNames) : outcome[i] = "Err"
                 THEN /\ term' = "unwrap:PlayerProxy::new"
                      /\ UNCHANGED <<pc, services>>
                 ELSE /\ services' = isNames
                      /\ pc' = "is_sub_names"
                      /\ UNCHANGED term
    /\ UNCHANGED <<busVars, phase, combined, names, data, out, isNames, building, subI,
                   gdVars, histVars, titleVars>>

\* combined.push(dbus.receive_name_owner_changed().await?.filter_map(..).boxed())
IsSubNames ==
    /\ term = ""
    /\ pc = "is_sub_names"
    /\ building' = <<Source("Names", "", installed + 1)>>
    /\ subI' = 1
    /\ pc' = IF services = <<>> THEN "is_ret" ELSE "is_sub_meta"
    /\ UNCHANGED <<busVars, phase, term, combined, names, data, out, isNames, services,
                   gdVars, histVars, titleVars>>

\* for s in services.iter() { combined.push(s.receive_metadata_changed().await ..) }
IsSubMetadata ==
    /\ term = ""
    /\ pc = "is_sub_meta"
    /\ building' = Append(building, Source("Metadata", services[subI], installed + 1))
    /\ IF subI < Len(services)
           THEN subI' = subI + 1 /\ UNCHANGED pc
           ELSE subI' = 1 /\ pc' = "is_sub_vol"
    /\ UNCHANGED <<busVars, phase, term, combined, names, data, out, isNames, services,
                   gdVars, histVars, titleVars>>

\* A slip: the volume loop pushes nothing.
IsSubVolume_PushesNothing ==
    /\ term = ""
    /\ pc = "is_sub_vol"
    /\ building' = building
    /\ IF subI < Len(services)
           THEN subI' = subI + 1 /\ UNCHANGED pc
           ELSE subI' = 0 /\ pc' = "is_ret"
    /\ UNCHANGED <<busVars, phase, term, combined, names, data, out, isNames, services,
                   gdVars, histVars, titleVars>>

\* for s in services.iter() { combined.push(s.receive_volume_changed().await ..) }
IsSubVolume ==
    /\ term = ""
    /\ pc = "is_sub_vol"
    /\ building' = Append(building, Source("Volume", services[subI], installed + 1))
    /\ IF subI < Len(services)
           THEN subI' = subI + 1 /\ UNCHANGED pc
           ELSE subI' = 0 /\ pc' = "is_ret"
    /\ UNCHANGED <<busVars, phase, term, combined, names, data, out, isNames, services,
                   gdVars, histVars, titleVars>>

\* A slip: the streams of the replaced SelectAll are kept beside the new ones.
AssignCombined_KeepsOld(old, new) == old \o new

\* `combined = init_streams(..)`: the assignment drops the SelectAll that combined
\* held, with its streams, and moves the new one in.
AssignCombined(old, new) == new

\* A slip: the loop goes back to next() right after the assignment.
AfterInitStreams_SkipsRefresh == "next"

\* The statement of main that follows the assignment of combined.
AfterInitStreams == "gpn"

\* Ok(combined), and the assignment in main.  The locals of init_streams (its
\* proxies among them) are dropped.
InitStreamsReturn ==
    /\ term = ""
    /\ pc = "is_ret"
    /\ combined' = AssignCombined(combined, building)
    /\ installed' = installed + 1
    /\ building' = <<>>
    /\ isNames' = <<>>
    /\ services' = <<>>
    /\ subI' = 0
    /\ pc' = AfterInitStreams
    /\ UNCHANGED <<busVars, phase, term, names, data, out, gdVars, namesGen, dataGen,
                   lastEv, delivered, batches, titleVars>>

(***************************************************************************)
(* main: the roster and the snapshots                                      *)
(***************************************************************************)
\* names = get_player_names(&conn).await?
GetPlayerNames ==
    /\ term = ""
    /\ pc = "gpn"
    /\ names' = get_player_names
    /\ namesGen' = installed
    /\ gdI' = 0
    /\ gdAcc' = <<>>
    /\ gdT' = NoneStr
    /\ pc' = "gd"
    /\ UNCHANGED <<busVars, phase, term, combined, data, out, initVars, installed,
                   dataGen, lastEv, delivered, batches, titleVars>>

\* let t = player.get_title().await.ok()
ReadTitle(n) == ResultOk(get_title(MetadataRead(n)))

\* A slip: after a state change only the player the event came from is read again.
GetDataOne_OnlySource(n, t) ==
    IF phase = "refresh" /\ n # lastEv.id THEN data[gdI + 1]
    ELSE PlayerData(n, t, VolumeRead(n))

\* let v = player.volume().await.ok(); PlayerData { service_name, title: t, volume: v }
GetDataOne(n, t) == PlayerData(n, t, VolumeRead(n))

\* A slip: the snapshot of a player that could not be read is left out.
Collect_DropsUnreachable(acc, d) ==
    IF ~d.title.some /\ ~d.volume.some THEN acc ELSE Append(acc, d)

\* join_all collects the result of every future, in the order of names.
Collect(acc, d) == Append(acc, d)

\* One future of get_data's join_all, up to its second await: PlayerProxy::new, then
\* get_title.  (The futures are taken one after the other, in the order of names.)
GetDataTitle ==
    /\ term = ""
    /\ pc = "gd"
    /\ gdI < Len(names)
    /\ LET n == names[gdI + 1]
       IN  \E proxy \in ProxyOutcomes(n) :
              IF proxy = "Err"
                  THEN /\ gdAcc' = Collect(gdAcc, DefaultData(n))
                       /\ gdI' = gdI + 1
                       /\ UNCHANGED <<pc, term, gdT>>
              ELSE IF get_title(MetadataRead(n)).tag = "Panic"
                  THEN /\ term' = "unwrap:" \o get_title(MetadataRead(n)).v
                       /\ UNCHANGED <<pc, gdVars>>
                  ELSE /\ gdT' = ReadTitle(n)
                       /\ pc' = "gd_vol"
                       /\ UNCHANGED <<term, gdI, gdAcc>>
    /\ UNCHANGED <<busVars, phase, combined, names, data, out, initVars, histVars,
                   titleVars>>

\* The same future, from player.volume() to its result.
GetDataVolume ==
    /\ term = ""
    /\ pc = "gd_vol"
    /\ gdAcc' = Collect(gdAcc, GetDataOne(names[gdI + 1], gdT))
    /\ gdI' = gdI + 1
    /\ gdT' = NoneStr
    /\ pc' = "gd"
    /\ UNCHANGED <<busVars, phase, term, combined, names, data, out, initVars, histVars,
                   titleVars>>

\* A slip: only the snapshots that have a title are printed.
PrintLines_OnlyTitled(d) ==
    LET titled == SelectSeq(d, LAMBDA x : x.title.some)
    IN  [i \in 1 .. Len(titled) |-> Display(titled[i])]

\* println!("{d}") for each snapshot
PrintLines(d) == [i \in 1 .. Len(d) |-> Display(d[i])]

\* data = get_data(..).await?; data.iter().for_each(|d| println!("{d}"))
GetDataReturn ==
    /\ term = ""
    /\ pc = "gd"
    /\ gdI = Len(names)
    /\ data' = gdAcc
    /\ out' = PrintLines(gdAcc)
    /\ batches' = batches + 1
    /\ dataGen' = IF phase = "refresh" THEN dataGen ELSE installed
    /\ gdI' = 0
    /\ gdAcc' = <<>>
    /\ gdT' = NoneStr
    /\ pc' = "next"
    /\ UNCHANGED <<busVars, phase, term, combined, names, initVars, installed, namesGen,
                   lastEv, delivered, titleVars>>

(***************************************************************************)
(* main: the loop                                                          *)
(***************************************************************************)
\* A slip: every event is handled as a Names event.
ArmOf_AlwaysRebuild(kind) == "rebuild"

\* match e { PlayerEvent::Names => .., _ => .. }
ArmOf(kind) == IF kind = "Names" THEN "rebuild" ELSE "refresh"

\* while let Some(e) = combined.next().await { match e { .. } }: SelectAll yields
\* the oldest item of any stream that has one.
NextEvent ==
    /\ term = ""
    /\ pc = "next"
    /\ \E i \in DOMAIN combined :
          /\ combined[i].q # <<>>
          /\ LET src == combined[i]
                 ev == [kind |-> src.kind, id |-> src.id, sig |-> Head(src.q),
                        epoch |-> src.epoch, fresh |-> src.fresh]
             IN  /\ combined' = [combined EXCEPT ![i].q = Tail(@)]
                 /\ lastEv' = ev
                 /\ delivered' = delivered \cup
                        {[ev |-> ev, installed |-> installed, namesGen |-> namesGen,
                          dataGen |-> dataGen]}
                 /\ IF ArmOf(src.kind) = "rebuild"
                        THEN /\ phase' = "rebuild"
                             /\ pc' = "is_names"
                             /\ UNCHANGED gdVars
                        ELSE /\ phase' = "refresh"
                             /\ pc' = "gd"
                             /\ gdI' = 0
                             /\ gdAcc' = <<>>
                             /\ gdT' = NoneStr
    /\ UNCHANGED <<busVars, term, names, data, out, initVars, installed, namesGen,
                   dataGen, batches, titleVars>>

\* The connection closes while the loop waits: every stream of combined ends, next()
\* returns None, the while-let ends and main returns Ok(()).
NextNone ==
    /\ term = ""
    /\ pc = "next"
    /\ \A i \in DOMAIN combined : combined[i].q = <<>>
    /\ term' = "ok"
    /\ UNCHANGED <<busVars, pc, phase, combined, names, data, out, initVars, gdVars,
                   histVars, titleVars>>

Environment ==
    \/ \E n \in Players : PlayerAppears(n)
    \/ \E n \in Players : PlayerVanishes(n)
    \/ OtherNameChanges
    \/ MalformedNameSignal
    \/ \E n \in Players, bag \in LiveBags : MetadataChanges(n, bag)
    \/ \E n \in Players, v \in Vols : VolumeChanges(n, v)

Next ==
    \/ Connect
    \/ TransportFails
    \/ IsGetPlayerNames
    \/ IsProxies
    \/ IsSubNames
    \/ IsSubMetadata
    \/ IsSubVolume
    \/ InitStreamsReturn
    \/ GetPlayerNames
    \/ GetDataTitle
    \/ GetDataVolume
    \/ GetDataReturn
    \/ NextEvent
    \/ NextNone
    \/ Environment

Spec == Init /\ [][Next]_vars

(***************************************************************************)
(* The title resolver on its own: get_title over every outcome of          *)
(* metadata() drawn from TitleInputs.                                      *)
(***************************************************************************)
InitTitle ==
    /\ owners = {}
    /\ meta = [p \in Players |-> BagFull]
    /\ vol = [p \in Players |-> 8]
    /\ nsig = 0
    /\ pc = "connect"
    /\ phase = "startup"
    /\ term = ""
    /\ combined = <<>>
    /\ names = <<>>
    /\ data = <<>>
    /\ out = <<>>
    /\ isNames = <<>>
    /\ services = <<>>
    /\ building = <<>>
    /\ subI = 0
    /\ gdI = 0
    /\ gdAcc = <<>>
    /\ gdT = NoneStr
    /\ installed = 0
    /\ namesGen = 0
    /\ dataGen = 0
    /\ lastEv = NoEvent
    /\ delivered = {}
    /\ batches = 0
    /\ tIn \in TitleInputs
    /\ tOut = NotCalled

ResolveTitle ==
    /\ tOut = NotCalled
    /\ tOut' = get_title(tIn)
    /\ UNCHANGED <<busVars, pc, phase, term, combined, names, data, out, initVars,
                   gdVars, histVars, tIn>>

NextTitle == ResolveTitle

SpecTitle == InitTitle /\ [][NextTitle]_vars

(***************************************************************************)
(* Properties.                                                             *)
(***************************************************************************)
Roster == {names[i] : i \in DOMAIN names}
SubCount(mux, k, n) == Cardinality({i \in DOMAIN mux : mux[i].kind = k /\ mux[i].id = n})
InitStreamsPcs == {"is_names", "is_proxies", "is_sub_names", "is_sub_meta",
                   "is_sub_vol", "is_ret"}
NamesConsumed == Cardinality({d \in delivered : d.ev.kind = "Names"})

\* C1: whenever startup or a rebuild has completed and the loop waits in next(), the
\* players holding subscriptions in combined are exactly the roster: each member of
\* names has one metadata and one volume stream, and every stream is a member's.
C1_RosterMatchesSubscriptions ==
    (term = "" /\ pc = "next") =>
        /\ \A n \in Roster :
              SubCount(combined, "Metadata", n) = 1 /\ SubCount(combined, "Volume", n) = 1
        /\ \A i \in DOMAIN combined :
              combined[i].kind # "Names" => combined[i].id \in Roster

\* C2: every event the loop consumes comes from a stream of the SelectAll assigned
\* last; no event of a stream made by an earlier init_streams call is consumed once
\* a later one has been assigned.
C2_NoStaleDelivery ==
    \A d \in delivered : d.ev.epoch = d.installed

\* C2 witness: a state change consumed after a rebuild replaced the SelectAll, while
\* the replaced one had been sent a signal too.
C2_Witness ==
    \E d \in delivered : d.ev.kind # "Names" /\ d.installed >= 2 /\ ~d.ev.fresh

\* C3: once the first SelectAll is assigned there is always one; all of its streams
\* come from one init_streams call, the last that returned; no signal is consumed
\* from streams of two different calls; and when init_streams fails during a rebuild
\* combined still holds the previous SelectAll.
C3_ReplaceAfterConstruction ==
    /\ installed >= 1 => combined # <<>>
    /\ \A i \in DOMAIN combined : combined[i].epoch = installed
    /\ Cardinality({i \in DOMAIN combined : combined[i].kind = "Names"}) <= 1
    /\ \A d1, d2 \in delivered : d1.ev.sig = d2.ev.sig => d1.ev.epoch = d2.ev.epoch
    /\ (term # "" /\ phase = "rebuild" /\ pc \in InitStreamsPcs) =>
           /\ combined # <<>>
           /\ building = <<>>
           /\ \A i \in DOMAIN combined : combined[i].epoch = installed

\* C3 witness: a rebuild is about to return while the SelectAll in use and the one
\* under construction both hold the same signal of one player.
C3_Witness ==
    /\ term = ""
    /\ phase = "rebuild"
    /\ pc = "is_ret"
    /\ \E i \in DOMAIN combined, j \in DOMAIN building :
          /\ combined[i].kind # "Names"
          /\ combined[i].id = building[j].id
          /\ combined[i].kind = building[j].kind
          /\ combined[i].q # <<>>
          /\ building[j].q # <<>>
          /\ combined[i].q[Len(combined[i].q)] = building[j].q[Len(building[j].q)]

\* C4: the loop is in next() only when every Names event consumed so far has been
\* followed by a new SelectAll, a new roster and a full recompute; and every event
\* was consumed with roster and snapshots as recent as the stream it came from.
C4_RebuildBeforeNextEvent ==
    /\ (term = "" /\ pc = "next") =>
           /\ installed = NamesConsumed + 1
           /\ namesGen = installed
           /\ dataGen = installed
    /\ \A d \in delivered :
           /\ d.namesGen = d.installed
           /\ d.dataGen = d.installed
           /\ d.ev.epoch <= d.dataGen

\* C4 witness: a state change of a player that a rebuild subscribed to for the first
\* time has been consumed.
C4_Witness ==
    \E d \in delivered : d.ev.kind # "Names" /\ d.ev.epoch >= 2 /\ d.ev.fresh

\* C5: init_streams never aborts because the proxy of an enumerated player could not
\* be made; that player's streams are left out and the others are returned.
C5_VanishedPlayerOmitted ==
    term # "unwrap:PlayerProxy::new"

\* The short name a line starts with.
ShortName(n) == StripPrefixOr(n, SERVICE_PREFIX)
Usable(bag) == bag.artist.type = "as" \/ bag.title.type = "s"
\* join, folded from the left.
RECURSIVE JoinedWith(_, _)
JoinedWith(l, sep) ==
    IF Len(l) = 0 THEN ""
    ELSE IF Len(l) = 1 THEN l[1]
    ELSE JoinedWith(SubSeq(l, 1, Len(l) - 1), sep) \o sep \o l[Len(l)]

\* C6 (state part): get_data has one result per roster member read so far, in roster
\* order and carrying that member's name; when the loop waits in next() the
\* snapshots and the printed lines are one per roster member, in roster order.
C6_OnePerMember ==
    /\ (term = "" /\ pc \in {"gd", "gd_vol"}) =>
           /\ Len(gdAcc) = gdI
           /\ \A i \in 1 .. Len(gdAcc) : gdAcc[i].service_name = names[i]
    /\ (term = "" /\ pc = "next") =>
           /\ Len(data) = Len(names)
           /\ Len(out) = Len(names)
           /\ \A i \in 1 .. Len(names) :
                 /\ data[i].service_name = names[i]
                 /\ out[i] = Display(data[i])
                 /\ StartsWith(out[i], ShortName(names[i]))

\* C6 (step part): each future adds one snapshot; for a roster member whose proxy
\* could not be made, or whose title and volume reads both failed because it has left
\* the bus, that snapshot has no title and no volume and prints as
\* "<short-name>: Nothing".
C6_UnreachableIsNothing ==
    (pc \in {"gd", "gd_vol"} /\ gdI' = gdI + 1) =>
        /\ Len(gdAcc') = gdI'
        /\ LET n == names[gdI']
               d == gdAcc'[gdI']
           IN  (n \notin owners /\ ~gdT.some) =>
                  /\ d = [service_name |-> n, title |-> NoneStr, volume |-> NoneF64]
                  /\ Display(d) = ShortName(n) \o ": Nothing"

\* C6 (step part): the roster changes only in the get_player_names call of startup
\* or of a rebuild; get_data never changes it.
C6_RosterOnlyByRebuild ==
    names' # names => (pc = "gpn" /\ phase \in {"startup", "rebuild"})

\* C6: every recompute yields one snapshot per roster identity, in roster order;
\* an unreachable identity keeps its place with title and volume absent and prints
\* as "<short-name>: Nothing"; only a rebuild changes the roster.
C6_SnapshotPerRosterMember ==
    /\ []C6_OnePerMember
    /\ [][C6_UnreachableIsNothing]_vars
    /\ [][C6_RosterOnlyByRebuild]_vars

\* C6 witness: the loop waits in next() with a roster member that is no longer on the
\* bus, shown as "<short-name>: Nothing".
C6_Witness ==
    /\ term = ""
    /\ pc = "next"
    /\ \E i \in 1 .. Len(names) :
          /\ names[i] \notin owners
          /\ data[i] = DefaultData(names[i])
          /\ out[i] = ShortName(names[i]) \o ": Nothing"

\* C7: when get_data is at a player whose bag has neither a usable artist list nor a
\* usable title, keys missing included, get_title fails with TitleParseError and
\* main goes on: it has not ended there, by a panic or otherwise.
C7_TitleUnavailableNotPanic ==
    (/\ pc = "gd"
     /\ gdI < Len(names)
     /\ names[gdI + 1] \in owners
     /\ ~Usable(meta[names[gdI + 1]])) =>
        term = ""

\* C8: main ends only on a failure of the bus itself (an error of one of its calls, or
\* the end of its streams); nothing that concerns one player makes it return or abort.
C8_OnlyTransportTerminates ==
    term # "" => term \in {"transport", "ok"}

C10_ArtistsDashTitle ==
    (/\ tOut # NotCalled
     /\ tIn.ok
     /\ tIn.bag.artist.type = "as"
     /\ tIn.bag.artist.list # <<>>
     /\ tIn.bag.title.type = "s") =>
        tOut = [tag |-> "Ok",
                v |-> JoinedWith(tIn.bag.artist.list, ", ") \o " - " \o tIn.bag.title.str]

\* C10 witness: get_title returned for a list of MaxArtists artists and a title.
C10_Witness ==
    /\ tOut # NotCalled
    /\ tIn.ok
    /\ tIn.bag.artist.type = "as"
    /\ Len(tIn.bag.artist.list) = MaxArtists
    /\ tIn.bag.title.type = "s"
    /\ tIn.bag.title.str # ""

\* C11: when only one of the two fields is usable get_title returns it alone: without
\* a usable artist list (key missing or ill-typed) and with a title T it returns T;
\* without a usable title (key missing or ill-typed) and with an artist list A it
\* returns join(A, ", ").
C11_SingleFieldAlone ==
    (tOut # NotCalled /\ tIn.ok) =>
        /\ (tIn.bag.artist.type # "as" /\ tIn.bag.title.type = "s") =>
               tOut = [tag |-> "Ok", v |-> tIn.bag.title.str]
        /\ (tIn.bag.artist.type = "as" /\ tIn.bag.title.type # "s") =>
               tOut = [tag |-> "Ok", v |-> JoinedWith(tIn.bag.artist.list, ", ")]

\* The signals a SelectAll holds, not yet yielded.
QSet(q) == {q[j] : j \in DOMAIN q}
Pending(mux) == UNION {QSet(mux[i].q) : i \in DOMAIN mux}
DeliveredSigs == {d.ev.sig : d \in delivered}

\* C12: the merged stream loses nothing, duplicates nothing, tags every event with its
\* source and keeps each source's order: an event a stream of combined holds stays
\* pending in combined or has been yielded by next() after every step; and what next()
\* yields is the oldest event of one stream, carries that stream's kind and player, and
\* was not yielded by that subscription before.
C12_MergedStreamLossless ==
    [][/\ \A s \in Pending(combined) : s \in Pending(combined') \/ s \in DeliveredSigs'
       /\ delivered' # delivered =>
             /\ \E i \in DOMAIN combined :
                   /\ combined[i].q # <<>>
                   /\ lastEv'.sig = Head(combined[i].q)
                   /\ lastEv'.kind = combined[i].kind
                   /\ lastEv'.id = combined[i].id
                   /\ lastEv'.epoch = combined[i].epoch
             /\ \A d \in delivered :
                   ~(d.ev.sig = lastEv'.sig /\ d.ev.epoch = lastEv'.epoch)]_vars

\* A stream is known by its kind, its player and the init_streams call that made it.
StreamIds(mux) == {<<mux[i].kind, mux[i].id, mux[i].epoch>> : i \in DOMAIN mux}

Composition(mux) == [i \in DOMAIN mux |-> <<mux[i].kind, mux[i].id>>]
PlayersIn(mux) == {mux[i].id : i \in {x \in DOMAIN mux : mux[x].kind # "Names"}}

\* C14: a rebuild that finds the players the previous build found gives the same
\* result with new subscriptions: the SelectAll init_streams returns has the
\* composition of the one it replaces (one name-owner-changed stream, then one
\* metadata stream and one volume stream per player), none of its streams is a stream
\* of the old one, and the roster main enumerates is the roster it had.
C14_RebuildIdempotent ==
    [][/\ (phase = "rebuild" /\ pc = "is_ret" /\ pc' # "is_ret"
           /\ QSet(isNames) = PlayersIn(combined)) =>
             /\ Composition(combined') = Composition(combined)
             /\ Len(combined') = 1 + 2 * Len(isNames)
             /\ SubCount(combined', "Names", "") = 1
             /\ \A n \in QSet(isNames) :
                   /\ SubCount(combined', "Metadata", n) = 1
                   /\ SubCount(combined', "Volume", n) = 1
             /\ StreamIds(combined') \cap StreamIds(combined) = {}
             /\ \A i \in DOMAIN combined' : combined'[i].epoch = installed + 1
       /\ (phase = "rebuild" /\ pc = "gpn" /\ names' # names) =>
             QSet(get_player_names) # QSet(names)]_vars

\* A rebuild is about to return for the players the replaced SelectAll was built for.
C14_Witness ==
    /\ phase = "rebuild"
    /\ pc = "is_ret"
    /\ isNames # <<>>
    /\ QSet(isNames) = PlayersIn(combined)
    /\ QSet(isNames) = QSet(names)

\* C15: main does not return Ok(()) because the streams of combined ended.
C15_NoOkOnStreamEnd ==
    term # "ok"

\* C16: the snapshots are printed once at startup, before the loop consumes an event,
\* and once more for every event it has processed: while an event is being processed
\* its batch is not out yet, and when the loop is back in next() there is one batch
\* per consumed event beside the startup one.  The last batch has one line per roster
\* member, in roster order, beginning with the member's short name, and is empty for
\* an empty roster.
C16_OneBatchPerEvent ==
    /\ delivered # {} => batches >= 1
    /\ (phase = "startup" /\ pc # "next") => batches = 0
    /\ (phase # "startup" /\ pc # "next") => batches = Cardinality(delivered)
    /\ pc = "next" =>
           /\ batches = Cardinality(delivered) + 1
           /\ Len(out) = Len(names)
           /\ names = <<>> => out = <<>>
           /\ \A i \in 1 .. Len(names) :
                 \/ out[i] = ShortName(names[i]) \o ": Nothing"
                 \/ /\ data[i].title.some
                    /\ \/ out[i] = ShortName(names[i]) \o ": " \o data[i].title.v
                       \/ out[i] = ShortName(names[i]) \o "[" \o FmtF64(data[i].volume.v)
                                       \o "]: " \o data[i].title.v

\* Three batches are out, the last one for a roster that lost its players.
C16_Witness ==
    /\ term = ""
    /\ pc = "next"
    /\ batches = 3
    /\ lastEv.kind = "Names"
    /\ names = <<>>
    /\ out = <<>>

\* What a signal does to the name-owner-changed streams of a SelectAll.
NamesGrow(mux, mux2, s) ==
    \A i \in DOMAIN mux : mux[i].kind = "Names" => mux2[i].q = Append(mux[i].q, s)
NamesKeep(mux, mux2) ==
    \A i \in DOMAIN mux : mux[i].kind = "Names" => mux2[i].q = mux[i].q

\* C17: a signal puts a Names event into the name-owner-changed stream exactly when it
\* is a NameOwnerChanged for a name that begins with SERVICE_PREFIX (a player came or
\* went); a signal for another name, one that does not decode, and a property change
\* put none, and the loop starts a rebuild only for a Names event it took from that
\* stream.
C17_NamesOnlyForPlayers ==
    [][/\ nsig' = nsig + 1 =>
             IF owners' # owners
                 THEN /\ NamesGrow(combined, combined', nsig')
                      /\ NamesGrow(building, building', nsig')
                 ELSE /\ NamesKeep(combined, combined')
                      /\ NamesKeep(building, building')
       /\ (pc = "next" /\ pc' = "is_names") =>
             \E i \in DOMAIN combined :
                 /\ combined[i].kind = "Names"
                 /\ combined[i].q # <<>>
                 /\ lastEv'.sig = Head(combined[i].q)
                 /\ lastEv'.kind = "Names"]_vars

\* Both players were subscribed at startup; signals 1 and 3 were a player going and
\* coming, and signal 2, sent in between for another name or undecodable, is in no
\* stream: every property change of the one player then on the bus would be.
C17_Witness ==
    /\ term = ""
    /\ pc = "next"
    /\ delivered = {}
    /\ PlayersIn(combined) = Players
    /\ \E i \in DOMAIN combined :
          /\ combined[i].kind = "Names"
          /\ combined[i].q = <<1, 3>>
          /\ \A j \in DOMAIN combined \ {i} : combined[j].q = <<>>

\* C18: while the event the loop consumed last is a Metadata or Volume event, no step
\* changes names or the streams combined is made of: the step that consumes it only
\* takes it from its stream, and its processing recomputes data alone.  names is
\* assigned only by get_player_names at startup and in a rebuild, and the streams of
\* combined only by the return of init_streams at startup and in a rebuild.
C18_StateChangeKeepsRoster ==
    [][/\ lastEv'.kind \in {"Metadata", "Volume"} =>
             /\ names' = names
             /\ StreamIds(combined') = StreamIds(combined)
             /\ Composition(combined') = Composition(combined)
             /\ pc' \in {"gd", "gd_vol", "next"}
       /\ names' # names => (pc = "gpn" /\ phase \in {"startup", "rebuild"})
       /\ StreamIds(combined') # StreamIds(combined) =>
             (pc = "is_ret" /\ phase \in {"startup", "rebuild"})]_vars

\* A Volume event was processed to the end for a roster of two players, after an
\* earlier Metadata event.
C18_Witness ==
    /\ term = ""
    /\ pc = "next"
    /\ lastEv.kind = "Volume"
    /\ \E d \in delivered : d.ev.kind = "Metadata"
    /\ batches = 3
    /\ Len(names) = 2
    /\ installed = 1

\* The loop waits in next() and no stream of combined holds an event.
Quiescent ==
    /\ term = ""
    /\ pc = "next"
    /\ \A i \in DOMAIN combined : combined[i].q = <<>>

\* C19: no appearance of a player is missed: when the loop waits in next() with no
\* event pending, every player on the bus has a metadata stream and a volume stream
\* in combined.
C19_NoAppearanceMissed ==
    Quiescent =>
        \A n \in owners :
            /\ SubCount(combined, "Metadata", n) = 1
            /\ SubCount(combined, "Volume", n) = 1

\* What get_data would read for a player from the bus as it is now.
CurrentSnapshot(n) == PlayerData(n, ResultOk(get_title(MetadataRead(n))), VolumeRead(n))

\* C20: no state update is lost for good: when the loop waits in next() with no event
\* pending, the snapshot printed last for every roster member is the member's title
\* and volume on the bus.
C20_PrintedStateIsCurrent ==
    Quiescent =>
        /\ Len(data) = Len(names)
        /\ Len(out) = Len(names)
        /\ \A i \in 1 .. Len(names) :
              /\ data[i] = CurrentSnapshot(names[i])
              /\ out[i] = Display(CurrentSnapshot(names[i]))
=============================================================================
